---- MODULE Spec2Model ----
(***************************************************************************)
(* Verification model of the multi-agent order system                      *)
(* (src/Multi Agent Systems/project).                                      *)
(*                                                                         *)
(* The ledger is the `transactions` table: a sequence of rows that only    *)
(* create_transaction writes.  The agents are smolagents ToolCallingAgents:*)
(* the language model decides which tool is called next and with which     *)
(* arguments, so every tool call is a nondeterministic choice bounded by   *)
(* the agent's max_steps.  The workflow text of the orchestrator is a      *)
(* prompt, not control flow: nothing in the code orders the tool calls.    *)
(*                                                                         *)
(* Money is counted in cents.  Products with a percentage are kept exact   *)
(* in hundredths of a cent (scale 100); the binary rounding error of the   *)
(* Python float type is not modelled.                                      *)
(* A date string is <<day, time>>: time 0 is the bare YYYY-MM-DD form,     *)
(* time t > 0 a "T.." suffix; the order on pairs is the order SQLite puts  *)
(* on the ISO strings.                                                     *)
(***************************************************************************)
EXTENDS Integers, Sequences, FiniteSets, TLC

VARIABLES
    ledger,     \* rows of the transactions table, in insertion order
    pc,         \* "idle" | "orch" | "spec": where process_customer_request is
    orchSteps,  \* steps taken by the orchestrator agent in this request
    who,        \* the specialist a delegation is running ("none" outside)
    specSteps,  \* steps taken by that specialist in this delegation
    reqStart,   \* history: Len(ledger) when the current request started
    approved,   \* history: amounts approve_purchase approved in this request
    quoted,     \* history: totals calculate_quote_price returned in this request
    outcome,    \* what the last process_customer_request call did
    failTexts,  \* history: the texts returned by calls whose run raised
    nReq,       \* completed process_customer_request calls
    call,       \* the last direct tool/helper call and its result
    awPc,            \* where the script agentic_workflow.py is
    workflow_steps,  \* the plan extracted from the workflow prompt
    completed_steps, \* the results appended by the loop
    stepI,           \* the number of loop iterations started
    routing_agents,  \* the routing table of routing_agent
    routeCall,       \* the current (or last) route_prompt call
    routed,          \* history: the tasks route_prompt was called with
    returns,         \* history: the results route_prompt returned
    ev               \* the current (or last) Evaluator session

\* the state of the planning/routing/evaluation workflow
awVars == <<awPc, workflow_steps, completed_steps, stepI, routing_agents,
            routeCall, routed, returns, ev>>

vars == <<ledger, pc, orchSteps, who, specSteps, reqStart, approved, quoted,
          outcome, failTexts, nReq, call, awVars>>

wfVars == <<pc, orchSteps, who, specSteps, reqStart, approved, quoted, outcome,
            failTexts, nReq, awVars>>

\* the state of the order system
orderVars == <<ledger, pc, orchSteps, who, specSteps, reqStart, approved, quoted,
               outcome, failTexts, nReq, call>>

-----------------------------------------------------------------------------
(* Bounds of the model *)

MaxLedger == 2

MaxRequests == 2

MaxLines == 2

MaxPlan == 2

-----------------------------------------------------------------------------
(* Program constants *)

OrchestratorMaxSteps == 15

InventoryMaxSteps == 5

QuotingMaxSteps == 5

FinancialMaxSteps == 5

OrderingMaxSteps == 8

DefaultSafetyMargin == 20

EndOfDay == 9

TopSellingLimit == 5

EvaluatorMaxIterations == 3

-----------------------------------------------------------------------------
(* The inventory table (read-only reference data).  The table's content is *)
(* input data; the one catalogued item is the spec's scenario item.        *)

Inventory ==
    [x \in {"A4 paper"} |-> [unit_price |-> 5, min_stock_level |-> 500,
                             category |-> "paper"]]

Catalog == DOMAIN Inventory

\* item names a tool call may carry: one catalogued, one not
ItemNames == {"A4 paper", "Cardboard"}

\* the item names the language model may pass to a tool in the workflow
WfItems == ItemNames

-----------------------------------------------------------------------------
(* helpers.py *)

\* transaction_date <= :as_of_date on ISO strings
DateLeq(a, b) == a[1] < b[1] \/ (a[1] = b[1] /\ a[2] <= b[2])

\* if len(as_of_date) == 10: as_of_date = f"{as_of_date}T23:59:59"
NormalizeAsOf(d) == IF d[2] = 0 THEN <<d[1], EndOfDay>> ELSE d

RECURSIVE SumSeq(_)
\* SUM(...) of a column, given as the sequence of its values
SumSeq(s) == IF s = <<>> THEN 0 ELSE s[1] + SumSeq(Tail(s))

\* mutant: a sale counts like a stock order
StockDeltaUnsigned(r) ==
    IF r.transaction_type = "stock_orders" THEN r.units
    ELSE IF r.transaction_type = "sales" THEN r.units
    ELSE 0

StockDelta(r) ==
    IF r.transaction_type = "stock_orders" THEN r.units
    ELSE IF r.transaction_type = "sales" THEN 0 - r.units
    ELSE 0

\* mutant: the WHERE clause has no condition on transaction_date
get_stock_level_all_dates(L, item_name, as_of_date) ==
    LET term(r) == IF r.item_name = item_name THEN StockDelta(r) ELSE 0
    IN SumSeq([i \in 1..Len(L) |-> term(L[i])])

get_stock_level(L, item_name, as_of_date) ==
    LET asof == NormalizeAsOf(as_of_date)
        term(r) == IF r.item_name = item_name /\ DateLeq(r.transaction_date, asof)
                   THEN StockDelta(r) ELSE 0
    IN SumSeq([i \in 1..Len(L) |-> term(L[i])])

\* mutant: the purchases are not subtracted
get_cash_balance_gross(L, as_of_date, storeOk) ==
    LET asof == NormalizeAsOf(as_of_date)
        sales(r) == IF r.transaction_type = "sales" /\ DateLeq(r.transaction_date, asof)
                    THEN r.price ELSE 0
    IN IF storeOk THEN SumSeq([i \in 1..Len(L) |-> sales(L[i])]) ELSE 0

\* storeOk = FALSE: pd.read_sql raises; the except branch returns 0.0
get_cash_balance(L, as_of_date, storeOk) ==
    LET asof == NormalizeAsOf(as_of_date)
        sales(r) == IF r.transaction_type = "sales" /\ DateLeq(r.transaction_date, asof)
                    THEN r.price ELSE 0
        purchases(r) == IF r.transaction_type = "stock_orders"
                           /\ DateLeq(r.transaction_date, asof)
                        THEN r.price ELSE 0
    IN IF storeOk
       THEN SumSeq([i \in 1..Len(L) |-> sales(L[i])])
            - SumSeq([i \in 1..Len(L) |-> purchases(L[i])])
       ELSE 0

TransactionTypes == {"stock_orders", "sales"}

Row(item_name, transaction_type, quantity, price, date) ==
    [item_name |-> item_name, transaction_type |-> transaction_type,
     units |-> quantity, price |-> price, transaction_date |-> date]

\* mutant: to_sql(..., if_exists="replace") drops the rows already there
StoreReplace(L, row) == <<row>>

\* to_sql(..., if_exists="append")
StoreAppend(L, row) == Append(L, row)

\* The faults of the store during create_transaction: none, the write
\* (to_sql) raises, or the read-back of last_insert_rowid raises after the
\* row is written.
StoreFaults == {"none", "write", "readback"}

\* mutant: the type is validated only after the row is written
create_transaction_late_check(L, item_name, transaction_type, quantity, price, date, fault) ==
    IF fault = "write"
    THEN [ledger |-> L, raised |-> TRUE, id |-> 0, writes |-> 1]
    ELSE LET L2 == Append(L, Row(item_name, transaction_type, quantity, price, date))
         IN IF transaction_type \notin TransactionTypes \/ fault = "readback"
            THEN [ledger |-> L2, raised |-> TRUE, id |-> 0, writes |-> 1]
            ELSE [ledger |-> L2, raised |-> FALSE, id |-> Len(L2), writes |-> 1]

\* Result: the ledger afterwards, whether the call raised, the id returned,
\* and how many writes (to_sql calls) were attempted.
create_transaction(L, item_name, transaction_type, quantity, price, date, fault) ==
    IF transaction_type \notin TransactionTypes
    THEN [ledger |-> L, raised |-> TRUE, id |-> 0, writes |-> 0]
    ELSE IF fault = "write"
    THEN [ledger |-> L, raised |-> TRUE, id |-> 0, writes |-> 1]
    ELSE LET L2 == StoreAppend(L, Row(item_name, transaction_type, quantity, price, date))
         IN IF fault = "readback"
            THEN [ledger |-> L2, raised |-> TRUE, id |-> 0, writes |-> 1]
            ELSE [ledger |-> L2, raised |-> FALSE, id |-> Len(L2), writes |-> 1]

\* a date string that datetime.fromisoformat rejects is a pair of day 0
IsIsoDate(d) == d[1] > 0

\* mutant: the tiers of the helper end one unit early (10 units take a day)
get_supplier_delivery_date_exclusive(input_date_str, quantity, today) ==
    LET input_date_dt == IF IsIsoDate(input_date_str) THEN input_date_str[1] ELSE today
        days == IF quantity < 10 THEN 0
                ELSE IF quantity < 100 THEN 1
                ELSE IF quantity < 1000 THEN 4
                ELSE 7
    IN <<input_date_dt + days, 0>>

\* input_date_str.split("T")[0] drops the time part; a string that does not
\* parse is replaced by datetime.now(), the day `today`; the result is
\* formatted "%Y-%m-%d"
get_supplier_delivery_date(input_date_str, quantity, today) ==
    LET input_date_dt == IF IsIsoDate(input_date_str) THEN input_date_str[1] ELSE today
        days == IF quantity <= 10 THEN 0
                ELSE IF quantity <= 100 THEN 1
                ELSE IF quantity <= 1000 THEN 4
                ELSE 7
    IN <<input_date_dt + days, 0>>

\* the item names that occur in the rows of L
NamesIn(L) == {L[i].item_name : i \in 1..Len(L)}

\* GROUP BY item_name HAVING stock > 0, as a dict item_name -> stock
get_all_inventory(L, as_of_date) ==
    LET asof == NormalizeAsOf(as_of_date)
        term(r, x) == IF r.item_name = x /\ DateLeq(r.transaction_date, asof)
                      THEN StockDelta(r) ELSE 0
        stock(x) == SumSeq([i \in 1..Len(L) |-> term(L[i], x)])
        grouped == {x \in NamesIn(L) :
                      \E i \in 1..Len(L) :
                         L[i].item_name = x /\ DateLeq(L[i].transaction_date, asof)}
    IN [x \in {y \in grouped : stock(y) > 0} |-> stock(x)]

RECURSIVE SumValues(_, _)
\* the sum of f[x] over the x of S
SumValues(f, S) ==
    IF S = {} THEN 0
    ELSE LET x == CHOOSE y \in S : TRUE IN f[x] + SumValues(f, S \ {x})

\* top_sales_query: the sales rows with transaction_date <= :date, grouped by
\* item; the five groups of highest revenue (the order among them is left out)
TopSelling(L, date) ==
    LET sold(r, x) == r.transaction_type = "sales" /\ r.item_name = x
                      /\ DateLeq(r.transaction_date, date)
        grouped == {x \in NamesIn(L) : \E i \in 1..Len(L) : sold(L[i], x)}
        units(x) == SumSeq([i \in 1..Len(L) |->
                              IF sold(L[i], x) THEN L[i].units ELSE 0])
        revenue(x) == SumSeq([i \in 1..Len(L) |->
                                IF sold(L[i], x) THEN L[i].price ELSE 0])
        groups == {[item_name |-> x, total_units |-> units(x),
                    total_revenue |-> revenue(x)] : x \in grouped}
    IN {g \in groups :
          Cardinality({h \in groups : h.total_revenue > g.total_revenue})
             < TopSellingLimit}

\* storeOk = FALSE: get_cash_balance gives 0.0, then the read of the
\* inventory table raises
generate_financial_report(L, as_of_date, storeOk) ==
    LET cash == get_cash_balance(L, as_of_date, storeOk)
        inventory_summary ==
            [x \in DOMAIN Inventory |->
                [item_name |-> x,
                 stock |-> get_stock_level(L, x, as_of_date),
                 unit_price |-> Inventory[x].unit_price,
                 value |-> get_stock_level(L, x, as_of_date) * Inventory[x].unit_price]]
        inventory_value ==
            SumValues([x \in DOMAIN Inventory |-> inventory_summary[x].value],
                      DOMAIN Inventory)
    IN IF ~storeOk
       THEN [kind |-> "raise"]
       ELSE [kind |-> "return",
             value |-> [as_of_date |-> as_of_date,
                        cash_balance |-> cash,
                        inventory_value |-> inventory_value,
                        total_assets |-> cash + inventory_value,
                        inventory_summary |-> inventory_summary,
                        top_selling_products |-> TopSelling(L, as_of_date)]]

-----------------------------------------------------------------------------
(* Python values *)

\* round(x, 2) of an amount kept in hundredths of a cent: the nearest cent,
\* a tie going to the even cent
Round2(x100) ==
    LET q == x100 \div 100
        r == x100 % 100
    IN IF r < 50 THEN q
       ELSE IF r > 50 THEN q + 1
       ELSE IF q % 2 = 0 THEN q ELSE q + 1

\* dict.get(key, default)
Get(d, key, default) == IF key \in DOMAIN d THEN d[key] ELSE default

-----------------------------------------------------------------------------
(* agents/inventory_agent.py *)

\* A tool call ends by returning a value or by raising: [kind |-> "return",
\* value |-> ...] or [kind |-> "raise"].  storeOk = FALSE: the store's
\* pd.read_sql raises during the call.
check_item_stock(L, item_name, date, storeOk) ==
    IF ~storeOk
    THEN [kind |-> "raise"]
    ELSE [kind |-> "return",
          value |-> [item_name |-> item_name,
                     current_stock |-> get_stock_level(L, item_name, date)]]

check_all_inventory(L, date, storeOk) ==
    IF ~storeOk
    THEN [kind |-> "raise"]
    ELSE [kind |-> "return", value |-> get_all_inventory(L, date)]

-----------------------------------------------------------------------------
(* agents/quoting_agent.py *)

\* mutant: the tier bounds are exclusive (500 units already get 10 percent)
DiscountPercentExclusive(total_units) ==
    IF total_units < 500 THEN 0
    ELSE IF total_units < 1000 THEN 10
    ELSE 15

\* the discount tier chosen from total_units (a percentage)
DiscountPercent(total_units) ==
    IF total_units <= 500 THEN 0
    ELSE IF total_units <= 1000 THEN 10
    ELSE 15

\* item_total of one line, in cents
ItemTotal(item) == Get(item, "quantity", 0) * Get(item, "unit_price", 0)

calculate_quote_price(items) ==
    IF items = <<>>
    THEN [subtotal |-> 0, discount_percent |-> 0, discount_amount |-> 0,
          total |-> 0, total_units |-> 0, breakdown |-> <<>>]
    ELSE
    LET subtotal == SumSeq([i \in 1..Len(items) |-> ItemTotal(items[i])])
        total_units == SumSeq([i \in 1..Len(items) |-> Get(items[i], "quantity", 0)])
        breakdown == [i \in 1..Len(items) |->
                        [item_name |-> Get(items[i], "item_name", "Unknown"),
                         quantity |-> Get(items[i], "quantity", 0),
                         unit_price |-> Get(items[i], "unit_price", 0),
                         item_total |-> ItemTotal(items[i])]]
        discount_percent == DiscountPercent(total_units)
        discount_amount100 == subtotal * discount_percent
        total100 == subtotal * 100 - discount_amount100
    IN [subtotal |-> subtotal,
        discount_percent |-> discount_percent,
        discount_amount |-> Round2(discount_amount100),
        total |-> Round2(total100),
        total_units |-> total_units,
        breakdown |-> breakdown]

-----------------------------------------------------------------------------
(* agents/financial_agent.py *)

\* mutant: a purchase that takes exactly the available amount is rejected
approve_purchase_strict(L, purchase_amount, date, safety_margin, storeOk) ==
    LET current_balance == get_cash_balance(L, date, storeOk)
        minimum_balance100 == current_balance * safety_margin
        available_for_purchase100 == current_balance * 100 - minimum_balance100
    IN [approved |-> purchase_amount * 100 < available_for_purchase100,
        purchase_amount |-> purchase_amount,
        current_balance |-> current_balance,
        balance_after_purchase |-> current_balance - purchase_amount,
        available_for_purchase |-> Round2(available_for_purchase100),
        minimum_balance |-> Round2(minimum_balance100),
        safety_margin_percent |-> safety_margin]

\* mutant: the purchase is compared with the whole balance, no margin kept
approve_purchase_without_margin(L, purchase_amount, date, safety_margin, storeOk) ==
    LET current_balance == get_cash_balance(L, date, storeOk)
        minimum_balance100 == current_balance * safety_margin
        available_for_purchase100 == current_balance * 100 - minimum_balance100
    IN [approved |-> purchase_amount <= current_balance,
        purchase_amount |-> purchase_amount,
        current_balance |-> current_balance,
        balance_after_purchase |-> current_balance - purchase_amount,
        available_for_purchase |-> Round2(available_for_purchase100),
        minimum_balance |-> Round2(minimum_balance100),
        safety_margin_percent |-> safety_margin]

\* purchase_amount in cents, safety_margin in percent
approve_purchase(L, purchase_amount, date, safety_margin, storeOk) ==
    LET current_balance == get_cash_balance(L, date, storeOk)
        minimum_balance100 == current_balance * safety_margin
        available_for_purchase100 == current_balance * 100 - minimum_balance100
        balance_after_purchase == current_balance - purchase_amount
        is_approved == purchase_amount * 100 <= available_for_purchase100
    IN [approved |-> is_approved,
        purchase_amount |-> purchase_amount,
        current_balance |-> current_balance,
        balance_after_purchase |-> balance_after_purchase,
        available_for_purchase |-> Round2(available_for_purchase100),
        minimum_balance |-> Round2(minimum_balance100),
        safety_margin_percent |-> safety_margin]

\* the except branch of check_cash_balance is never taken: get_cash_balance
\* does not raise
check_cash_balance(L, date, storeOk) ==
    LET balance == get_cash_balance(L, date, storeOk)
    IN [kind |-> "return",
        value |-> [date |-> date, cash_balance |-> Round2(balance * 100)]]

get_financial_report(L, date, storeOk) ==
    LET report == generate_financial_report(L, date, storeOk)
    IN IF report.kind = "raise"
       THEN [kind |-> "return", value |-> [error |-> "store"]]
       ELSE [kind |-> "return",
             value |-> [as_of_date |-> report.value.as_of_date,
                        cash_balance |-> Round2(report.value.cash_balance * 100),
                        inventory_value |-> Round2(report.value.inventory_value * 100),
                        total_assets |-> Round2(report.value.total_assets * 100),
                        inventory_count |->
                            Cardinality(DOMAIN report.value.inventory_summary),
                        top_selling_products |-> report.value.top_selling_products,
                        inventory_summary |-> report.value.inventory_summary]]

\* mutant: a ratio equal to a threshold falls in the class below
health_status_exclusive(cash, total_assets) ==
    LET positive == total_assets > 0
    IN IF positive /\ cash * 10 > 3 * total_assets THEN "EXCELLENT"
       ELSE IF positive /\ cash * 10 > 2 * total_assets THEN "GOOD"
       ELSE IF positive /\ cash * 10 > 1 * total_assets THEN "FAIR"
       ELSE "POOR"

\* cash_ratio = cash / total_assets if total_assets > 0 else 0.0, compared
\* with 0.3, 0.2 and 0.1: cash / total_assets >= n / 10 is written
\* cash * 10 >= n * total_assets, and a ratio of 0.0 is below every threshold
health_status(cash, total_assets) ==
    LET positive == total_assets > 0
    IN IF positive /\ cash * 10 >= 3 * total_assets THEN "EXCELLENT"
       ELSE IF positive /\ cash * 10 >= 2 * total_assets THEN "GOOD"
       ELSE IF positive /\ cash * 10 >= 1 * total_assets THEN "FAIR"
       ELSE "POOR"

\* the two ratios of the result, rounded to three places, are left out
calculate_financial_health(L, date, storeOk) ==
    LET report == generate_financial_report(L, date, storeOk)
    IN IF report.kind = "raise"
       THEN [kind |-> "return", value |-> [error |-> "store"]]
       ELSE [kind |-> "return",
             value |-> [date |-> date,
                        health_status |-> health_status(report.value.cash_balance,
                                                        report.value.total_assets),
                        cash_balance |-> Round2(report.value.cash_balance * 100),
                        inventory_value |-> Round2(report.value.inventory_value * 100),
                        total_assets |-> Round2(report.value.total_assets * 100)]]

-----------------------------------------------------------------------------
(* agents/ordering_agent.py *)

\* success/failure dict of a transaction tool, from create_transaction's result
TransactionDict(r, transaction_type, item_name, quantity, price, date) ==
    IF r.raised
    THEN [success |-> FALSE]
    ELSE [success |-> TRUE, transaction_id |-> r.id,
          transaction_type |-> transaction_type, item_name |-> item_name,
          quantity |-> quantity, price |-> price, date |-> date]

\* The ledger afterwards and the dict returned.
process_sales_transaction(L, item_name, quantity, price, date, fault) ==
    LET r == create_transaction(L, item_name, "sales", quantity, price, date, fault)
    IN [ledger |-> r.ledger,
        result |-> TransactionDict(r, "sales", item_name, quantity, price, date)]

process_stock_order_transaction(L, item_name, quantity, price, date, fault) ==
    LET r == create_transaction(L, item_name, "stock_orders", quantity, price,
                                date, fault)
    IN [ledger |-> r.ledger,
        result |-> TransactionDict(r, "stock_orders", item_name, quantity, price,
                                   date)]

\* the tiers are computed a second time, apart from the helper's
check_delivery_timeline(date, quantity, today) ==
    LET delivery_date == get_supplier_delivery_date(date, quantity, today)
        lead_time_days == IF quantity <= 10 THEN 0
                          ELSE IF quantity <= 100 THEN 1
                          ELSE IF quantity <= 1000 THEN 4
                          ELSE 7
    IN [kind |-> "return",
        value |-> [order_date |-> date, delivery_date |-> delivery_date,
                   lead_time_days |-> lead_time_days, quantity |-> quantity]]

\* mutant: a stock equal to the minimum already asks for a restock
check_restock_needed_at_minimum(L, item_name, date, storeOk) ==
    LET current_stock == get_stock_level(L, item_name, date)
    IN IF ~storeOk
       THEN [kind |-> "return", value |-> [error |-> "store"]]
       ELSE IF item_name \notin DOMAIN Inventory
       THEN [kind |-> "return",
             value |-> [item_name |-> item_name, current_stock |-> current_stock,
                        needs_restock |-> FALSE,
                        error |-> "Item not found in inventory catalog"]]
       ELSE
       LET min_stock == Inventory[item_name].min_stock_level
           unit_price == Inventory[item_name].unit_price
           needs_restock == current_stock <= min_stock
           reorder_qty == IF needs_restock THEN (min_stock * 2) - current_stock ELSE 0
           reorder_cost == IF needs_restock THEN reorder_qty * unit_price ELSE 0
       IN [kind |-> "return",
           value |-> [item_name |-> item_name, current_stock |-> current_stock,
                      min_stock_level |-> min_stock,
                      needs_restock |-> needs_restock,
                      recommended_reorder_qty |-> reorder_qty,
                      estimated_reorder_cost |-> Round2(reorder_cost * 100),
                      unit_price |-> unit_price]]

\* mutant: the recommended quantity restores the stock to the minimum only
check_restock_needed_to_minimum(L, item_name, date, storeOk) ==
    LET current_stock == get_stock_level(L, item_name, date)
    IN IF ~storeOk
       THEN [kind |-> "return", value |-> [error |-> "store"]]
       ELSE IF item_name \notin DOMAIN Inventory
       THEN [kind |-> "return",
             value |-> [item_name |-> item_name, current_stock |-> current_stock,
                        needs_restock |-> FALSE,
                        error |-> "Item not found in inventory catalog"]]
       ELSE
       LET min_stock == Inventory[item_name].min_stock_level
           unit_price == Inventory[item_name].unit_price
           needs_restock == current_stock < min_stock
           reorder_qty == IF needs_restock THEN min_stock - current_stock ELSE 0
           reorder_cost == IF needs_restock THEN reorder_qty * unit_price ELSE 0
       IN [kind |-> "return",
           value |-> [item_name |-> item_name, current_stock |-> current_stock,
                      min_stock_level |-> min_stock,
                      needs_restock |-> needs_restock,
                      recommended_reorder_qty |-> reorder_qty,
                      estimated_reorder_cost |-> Round2(reorder_cost * 100),
                      unit_price |-> unit_price]]

\* storeOk = FALSE: a read of the store raises; the except branch returns
\* the error dict
check_restock_needed(L, item_name, date, storeOk) ==
    LET current_stock == get_stock_level(L, item_name, date)
    IN IF ~storeOk
       THEN [kind |-> "return", value |-> [error |-> "store"]]
       ELSE IF item_name \notin DOMAIN Inventory
       THEN [kind |-> "return",
             value |-> [item_name |-> item_name, current_stock |-> current_stock,
                        needs_restock |-> FALSE,
                        error |-> "Item not found in inventory catalog"]]
       ELSE
       LET min_stock == Inventory[item_name].min_stock_level
           unit_price == Inventory[item_name].unit_price
           needs_restock == current_stock < min_stock
           reorder_qty == IF needs_restock THEN (min_stock * 2) - current_stock ELSE 0
           reorder_cost == IF needs_restock THEN reorder_qty * unit_price ELSE 0
       IN [kind |-> "return",
           value |-> [item_name |-> item_name, current_stock |-> current_stock,
                      min_stock_level |-> min_stock,
                      needs_restock |-> needs_restock,
                      recommended_reorder_qty |-> reorder_qty,
                      estimated_reorder_cost |-> Round2(reorder_cost * 100),
                      unit_price |-> unit_price]]

-----------------------------------------------------------------------------
(* agents/orchestrator_agent.py: process_customer_request *)

ApologyPrefix == "We apologize, but we encountered an error processing your request: "

\* str(x) of the values orchestrator.run may return
PyStr(v) ==
    IF v.tag = "str" THEN v.s
    ELSE IF v.tag = "none" THEN "None"
    ELSE ToString(v.n)

\* mutant: no except clause, the exception of the run propagates
process_customer_request_unguarded(run) ==
    IF run.kind = "return"
    THEN [kind |-> "return", value |-> [tag |-> "str", text |-> <<PyStr(run.value)>>]]
    ELSE [kind |-> "raise", exc |-> run.exc]

\* A text is the sequence of the fragments an f-string joins.
\* run: how orchestrator.run(full_request) ended, [kind |-> "return", value]
\* or [kind |-> "raise", exc] with exc the str() of an Exception.
process_customer_request(run) ==
    IF run.kind = "return"
    THEN [kind |-> "return", value |-> [tag |-> "str", text |-> <<PyStr(run.value)>>]]
    ELSE [kind |-> "return",
          value |-> [tag |-> "str", text |-> <<ApologyPrefix, run.exc>>]]

-----------------------------------------------------------------------------
(* Agentic Workflows/project/starter/phase_2/agentic_workflow.py           *)
(*                                                                         *)
(* The script builds three knowledge agents, an EvaluationAgent around     *)
(* each, a routing table of three support functions and a RoutingAgent,    *)
(* then routes the steps of the extracted plan one by one.  The classes    *)
(* (workflow_agents.base_agents) are not part of the sources: the Router   *)
(* and the Evaluator are modelled from sections 4.1, 4.3 and 7 of the      *)
(* specification.                                                          *)

\* mutant: the evaluation agent is built with one iteration more
product_manager_evaluation_agent_four ==
    [worker |-> "product_manager_knowledge_agent",
     max_iterations |-> EvaluatorMaxIterations + 1]

product_manager_evaluation_agent ==
    [worker |-> "product_manager_knowledge_agent",
     max_iterations |-> EvaluatorMaxIterations]

program_manager_evaluation_agent ==
    [worker |-> "program_manager_knowledge_agent",
     max_iterations |-> EvaluatorMaxIterations]

development_engineer_evaluation_agent ==
    [worker |-> "development_engineer_knowledge_agent",
     max_iterations |-> EvaluatorMaxIterations]

\* the routing table: name -> description and support function
agents ==
    [n \in {"product manager agent", "program manager agent",
            "development engineer agent"} |->
        IF n = "product manager agent"
        THEN [description |-> "Defines user stories for product features",
              func |-> "product_manager_support_function"]
        ELSE IF n = "program manager agent"
        THEN [description |-> "Organizes user stories into product features",
              func |-> "program_manager_support_function"]
        ELSE [description |-> "Defines development tasks for implementing user stories",
              func |-> "development_engineer_support_function"]]

\* the evaluation agent each support function calls
EvaluationAgentOf(func) ==
    IF func = "product_manager_support_function"
    THEN product_manager_evaluation_agent
    ELSE IF func = "program_manager_support_function"
    THEN program_manager_evaluation_agent
    ELSE development_engineer_evaluation_agent

\* return evaluation_result['final_response']
support_function_result(evaluation_result) == evaluation_result.final_response

\* Evaluator (4.3): a session starts with the caller's prompt
EvaluatorStart(agent, prompt) ==
    [worker |-> agent.worker, max_iterations |-> agent.max_iterations,
     task |-> prompt, prompt |-> <<prompt>>, rounds |-> 0, drafts |-> <<>>,
     verdicts |-> <<>>, status |-> "running", accepted |-> FALSE,
     final_response |-> "none"]

\* DRAFT: the wrapped handler answers the current prompt
EvaluatorDraftStep(e, draft) ==
    [e EXCEPT !.drafts = Append(@, draft), !.rounds = @ + 1]

\* mutant: an accepted draft is sent through the remaining rounds as well
EvaluatorJudgeStepNoEarlyReturn(e, v) ==
    IF v.tag = "malformed"
    THEN [e EXCEPT !.verdicts = Append(@, v), !.status = "raised"]
    ELSE IF e.rounds >= e.max_iterations
    THEN [e EXCEPT !.verdicts = Append(@, v), !.status = "returned",
                   !.accepted = v.accepted,
                   !.final_response = e.drafts[Len(e.drafts)]]
    ELSE [e EXCEPT !.verdicts = Append(@, v), !.prompt = <<e.task, v.reason>>]

\* JUDGE: the oracle's answer is a verdict {accepted, reason} or malformed.
\* ACCEPT returns at once; a rejection at the cap returns the last draft
\* with accepted = false; otherwise REVISE: the next prompt is the caller's
\* prompt with the rejection reason; a malformed answer is a hard error.
EvaluatorJudgeStep(e, v) ==
    IF v.tag = "malformed"
    THEN [e EXCEPT !.verdicts = Append(@, v), !.status = "raised"]
    ELSE IF v.accepted
    THEN [e EXCEPT !.verdicts = Append(@, v), !.status = "returned",
                   !.accepted = TRUE,
                   !.final_response = e.drafts[Len(e.drafts)]]
    ELSE IF e.rounds >= e.max_iterations
    THEN [e EXCEPT !.verdicts = Append(@, v), !.status = "returned",
                   !.accepted = FALSE,
                   !.final_response = e.drafts[Len(e.drafts)]]
    ELSE [e EXCEPT !.verdicts = Append(@, v), !.prompt = <<e.task, v.reason>>]

\* mutant: the task is sent to every handler of the table
route_dispatch_all(table, selection, task) ==
    IF selection \in DOMAIN table
    THEN <<[handler |-> selection, task |-> task]>>
         \o <<[handler |-> CHOOSE h \in DOMAIN table : h # selection, task |-> task]>>
    ELSE <<>>

\* Router (4.1): the handler invocations a route call makes for the oracle's
\* selection: the chosen handler with the task, none for a selection
\* outside the table
route_dispatch(table, selection, task) ==
    IF selection \in DOMAIN table
    THEN <<[handler |-> selection, task |-> task]>>
    ELSE <<>>

\* the plan steps the action planner may extract
StepTexts == {"Define the user stories", "Define the development tasks"}

\* the answers a knowledge agent may give
DraftTexts == {"draft one", "draft two"}

\* the oracle's answers to the router: a name of the table or another text
RouterSelections == DOMAIN agents \cup {"no such agent"}

\* the oracle's answers to the judge prompt
JudgeResponses ==
    {[tag |-> "verdict", accepted |-> TRUE, reason |-> "meets the criteria"],
     [tag |-> "verdict", accepted |-> FALSE, reason |-> "misses the structure"],
     [tag |-> "malformed"]}

NoRoute == [status |-> "idle"]

NoSession == [status |-> "idle"]

\* the script before its workflow section runs
AwStart ==
    /\ awPc = "start"
    /\ workflow_steps = <<>>
    /\ completed_steps = <<>>
    /\ stepI = 0
    /\ routing_agents = agents
    /\ routeCall = NoRoute
    /\ routed = <<>>
    /\ returns = <<>>
    /\ ev = NoSession

-----------------------------------------------------------------------------
(* What the language model may choose in the workflow *)

Specialists == {"inventory", "quoting", "ordering", "financial"}

\* max_steps of each specialist agent
MaxSteps(s) ==
    IF s = "inventory" THEN InventoryMaxSteps
    ELSE IF s = "quoting" THEN QuotingMaxSteps
    ELSE IF s = "financial" THEN FinancialMaxSteps
    ELSE OrderingMaxSteps

WfDates == {<<1, 0>>}

WfQuantities == {40}

WfAmounts == {200}

WfMargins == {DefaultSafetyMargin, 0}

\* the item lists the quoting specialist may be given in the workflow
WfQuoteInputs ==
    {<<[item_name |-> "A4 paper", quantity |-> q,
        unit_price |-> Inventory["A4 paper"].unit_price]>> : q \in WfQuantities}

\* final answers of the orchestrator run: a string, None, a number
RunValues ==
    {[tag |-> "str", s |-> "Order confirmed"], [tag |-> "none"],
     [tag |-> "int", n |-> 42]}

\* str(e) of the exceptions a run may raise
RunErrors == {"database is locked", "rate limit exceeded"}

NoCall == [fn |-> "none"]

NoOutcome == [kind |-> "none"]

-----------------------------------------------------------------------------
(* The workflow: process_customer_request -> orchestrator -> specialists *)

WfInit ==
    /\ ledger = <<>>
    /\ pc = "idle"
    /\ orchSteps = 0
    /\ who = "none"
    /\ specSteps = 0
    /\ reqStart = 0
    /\ approved = {}
    /\ quoted = {}
    /\ outcome = NoOutcome
    /\ failTexts = {}
    /\ nReq = 0
    /\ call = NoCall
    /\ AwStart

\* process_customer_request is called: orchestrator.run(full_request) starts
StartRequest ==
    /\ pc = "idle"
    /\ nReq < MaxRequests
    /\ pc' = "orch"
    /\ orchSteps' = 0
    /\ reqStart' = Len(ledger)
    /\ approved' = {}
    /\ quoted' = {}
    /\ outcome' = NoOutcome
    /\ UNCHANGED <<ledger, who, specSteps, failTexts, nReq, call, awVars>>

\* the orchestrator calls one of its delegate_to_*_specialist tools
Delegate ==
    /\ pc = "orch"
    /\ orchSteps < OrchestratorMaxSteps
    /\ \E s \in Specialists : who' = s
    /\ pc' = "spec"
    /\ orchSteps' = orchSteps + 1
    /\ specSteps' = 0
    /\ UNCHANGED <<ledger, reqStart, approved, quoted, outcome, failTexts, nReq, call, awVars>>

\* mutant: the specialist's loop has no step cap
ToolStepUncapped(s) ==
    /\ pc = "spec"
    /\ who = s
    /\ specSteps' = specSteps + 1
    /\ UNCHANGED <<pc, orchSteps, who, reqStart, outcome, failTexts, nReq, call, awVars>>

\* one tool step of specialist s is possible
ToolStep(s) ==
    /\ pc = "spec"
    /\ who = s
    /\ specSteps < MaxSteps(s)
    /\ specSteps' = specSteps + 1
    /\ UNCHANGED <<pc, orchSteps, who, reqStart, outcome, failTexts, nReq, call, awVars>>

\* a tool that only reads (the store or the catalog)
ReadOnlyTool(s) ==
    /\ ToolStep(s)
    /\ UNCHANGED <<ledger, approved, quoted>>

CheckItemStock == ReadOnlyTool("inventory")

CheckAllInventory == ReadOnlyTool("inventory")

\* get_available_items, find_similar_items, get_item_price, find_items_by_category
CatalogLookup == ReadOnlyTool("inventory")

\* search_historical_quotes, get_item_prices
QuoteLookup == ReadOnlyTool("quoting")

CalculateQuotePrice ==
    /\ ToolStep("quoting")
    /\ \E items \in WfQuoteInputs :
          quoted' = quoted \cup {calculate_quote_price(items).total}
    /\ UNCHANGED <<ledger, approved>>

CheckCashBalance == ReadOnlyTool("financial")

\* get_financial_report, calculate_financial_health
FinancialReport == ReadOnlyTool("financial")

ApprovePurchase ==
    /\ ToolStep("financial")
    /\ \E amount \in WfAmounts, date \in WfDates, margin \in WfMargins,
          storeOk \in BOOLEAN :
          approved' = IF approve_purchase(ledger, amount, date, margin, storeOk).approved
                      THEN approved \cup {amount}
                      ELSE approved
    /\ UNCHANGED <<ledger, quoted>>

ProcessSalesTransaction ==
    /\ ToolStep("ordering")
    /\ Len(ledger) < MaxLedger
    /\ \E item \in WfItems, q \in WfQuantities, price \in WfAmounts,
          date \in WfDates, fault \in StoreFaults :
          ledger' = process_sales_transaction(ledger, item, q, price, date, fault).ledger
    /\ UNCHANGED <<approved, quoted>>

ProcessStockOrderTransaction ==
    /\ ToolStep("ordering")
    /\ Len(ledger) < MaxLedger
    /\ \E item \in WfItems, q \in WfQuantities, price \in WfAmounts,
          date \in WfDates, fault \in StoreFaults :
          ledger' = process_stock_order_transaction(ledger, item, q, price, date,
                                                    fault).ledger
    /\ UNCHANGED <<approved, quoted>>

CheckDeliveryTimeline == ReadOnlyTool("ordering")

CheckRestockNeeded == ReadOnlyTool("ordering")

GetItemUnitPrice == ReadOnlyTool("ordering")

\* the specialist's run returns to the delegate tool
SpecialistFinish ==
    /\ pc = "spec"
    /\ pc' = "orch"
    /\ who' = "none"
    /\ specSteps' = 0
    /\ UNCHANGED <<ledger, orchSteps, reqStart, approved, quoted, outcome,
                   failTexts, nReq, call, awVars>>

\* process_customer_request returns what it makes of the way the run ended
Return(run) ==
    /\ outcome' = [run |-> run, result |-> process_customer_request(run)]
    /\ failTexts' =
          LET res == process_customer_request(run)
          IN IF run.kind = "raise" /\ res.kind = "return"
             THEN failTexts \cup {res.value.text}
             ELSE failTexts
    /\ pc' = "idle"
    /\ who' = "none"
    /\ orchSteps' = 0
    /\ specSteps' = 0
    /\ nReq' = nReq + 1
    /\ UNCHANGED <<ledger, reqStart, approved, quoted, call, awVars>>

\* orchestrator.run returns its final answer (at the latest after max_steps)
OrchestratorFinish ==
    /\ pc = "orch"
    /\ \E v \in RunValues : Return([kind |-> "return", value |-> v])

\* orchestrator.run raises (a model call or a delegation fails)
RunRaises ==
    /\ pc \in {"orch", "spec"}
    /\ \E e \in RunErrors : Return([kind |-> "raise", exc |-> e])

WfNext ==
    \/ StartRequest
    \/ Delegate
    \/ CheckItemStock
    \/ CheckAllInventory
    \/ CatalogLookup
    \/ QuoteLookup
    \/ CalculateQuotePrice
    \/ CheckCashBalance
    \/ FinancialReport
    \/ ApprovePurchase
    \/ ProcessSalesTransaction
    \/ ProcessStockOrderTransaction
    \/ CheckDeliveryTimeline
    \/ CheckRestockNeeded
    \/ GetItemUnitPrice
    \/ SpecialistFinish
    \/ OrchestratorFinish
    \/ RunRaises

Spec == WfInit /\ [][WfNext]_vars

\* The agents' loops are synchronous: a step that is started completes, and
\* the loop goes on to the next step until the run returns or raises.
SpecFair == WfInit /\ [][WfNext]_vars /\ WF_vars(WfNext)

-----------------------------------------------------------------------------
(* Direct calls of the quoting tool: the inputs of calculate_quote_price *)

QuoteQuantities == {1, 500, 501, 600}

\* the dicts a caller may put in items_with_quantities; the last two lack a key
QuoteLines ==
    {[item_name |-> "A4 paper", quantity |-> q, unit_price |-> 5] :
        q \in QuoteQuantities}
    \cup {[item_name |-> "Cardboard", quantity |-> q, unit_price |-> 10] :
        q \in QuoteQuantities}
    \cup {[item_name |-> "A4 paper", unit_price |-> 5],
          [item_name |-> "A4 paper", quantity |-> 500]}

RECURSIVE SeqsUpTo(_, _)
\* the sequences over S of length at most n
SeqsUpTo(S, n) ==
    IF n = 0 THEN {<<>>}
    ELSE LET shorter == SeqsUpTo(S, n - 1)
         IN shorter \cup {Append(q, x) : q \in {t \in shorter : Len(t) = n - 1}, x \in S}

QuoteInit == WfInit

QuoteCall ==
    /\ \E items \in SeqsUpTo(QuoteLines, MaxLines) :
          call' = [fn |-> "calculate_quote_price", items |-> items,
                   result |-> calculate_quote_price(items)]
    /\ UNCHANGED <<ledger, pc, orchSteps, who, specSteps, reqStart, approved,
                   quoted, outcome, failTexts, nReq, awVars>>

QuoteNext == QuoteCall

SpecQuote == QuoteInit /\ [][QuoteNext]_vars

-----------------------------------------------------------------------------
(* Direct calls of the ledger helpers and of the tools built on them *)

ApiQuantities == {40}

ApiPrices == {20000, 50000}

ApiDates == {<<1, 0>>, <<2, 0>>}

ApiAmounts == {24000, 24001, 26000}

ApiMargins == {0, DefaultSafetyMargin, 100}

\* transaction_type is a free string for a caller of the helper
ApiTypes == TransactionTypes \cup {"refund"}

ApiInit == WfInit

ApiCreateTransaction ==
    /\ Len(ledger) < MaxLedger
    /\ \E item \in ItemNames, type \in ApiTypes, q \in ApiQuantities,
          price \in ApiPrices, date \in ApiDates, fault \in StoreFaults :
          LET r == create_transaction(ledger, item, type, q, price, date, fault)
          IN /\ ledger' = r.ledger
             /\ call' = [fn |-> "create_transaction", item_name |-> item,
                         transaction_type |-> type, quantity |-> q, price |-> price,
                         date |-> date, fault |-> fault, raised |-> r.raised,
                         writes |-> r.writes, id |-> r.id]
    /\ UNCHANGED wfVars

ApiProcessSales ==
    /\ Len(ledger) < MaxLedger
    /\ \E item \in ItemNames, q \in ApiQuantities, price \in ApiPrices,
          date \in ApiDates, fault \in StoreFaults :
          LET r == process_sales_transaction(ledger, item, q, price, date, fault)
          IN /\ ledger' = r.ledger
             /\ call' = [fn |-> "process_sales_transaction", item_name |-> item,
                         quantity |-> q, price |-> price, date |-> date,
                         fault |-> fault, result |-> r.result]
    /\ UNCHANGED wfVars

ApiProcessStockOrder ==
    /\ Len(ledger) < MaxLedger
    /\ \E item \in ItemNames, q \in ApiQuantities, price \in ApiPrices,
          date \in ApiDates, fault \in StoreFaults :
          LET r == process_stock_order_transaction(ledger, item, q, price, date, fault)
          IN /\ ledger' = r.ledger
             /\ call' = [fn |-> "process_stock_order_transaction", item_name |-> item,
                         quantity |-> q, price |-> price, date |-> date,
                         fault |-> fault, result |-> r.result]
    /\ UNCHANGED wfVars

ApiApprovePurchase ==
    /\ \E amount \in ApiAmounts, date \in ApiDates, margin \in ApiMargins,
          storeOk \in BOOLEAN :
          call' = [fn |-> "approve_purchase", purchase_amount |-> amount,
                   date |-> date, safety_margin |-> margin, storeOk |-> storeOk,
                   result |-> approve_purchase(ledger, amount, date, margin, storeOk)]
    /\ UNCHANGED ledger
    /\ UNCHANGED wfVars

ApiNext ==
    \/ ApiCreateTransaction
    \/ ApiProcessSales
    \/ ApiProcessStockOrder
    \/ ApiApprovePurchase

SpecApi == ApiInit /\ [][ApiNext]_vars

-----------------------------------------------------------------------------
(* Direct calls of the readers of the ledger: rows are appended with        *)
(* create_transaction, then the helpers and tools that read are called      *)

LedgerQuantities == {1000}

\* the rows of this specification: a sale brings 500.00, a stock order
\* costs 200.00
LedgerPrices == [sales |-> {50000}, stock_orders |-> {20000}]

\* "2025-01-01", "2025-01-01T12:00:00", "2025-01-02"
LedgerDates == {<<1, 0>>, <<1, 5>>, <<2, 0>>}

AsOfDates == LedgerDates

\* a purchase of 240.00
LedgerAmounts == {24000}

LedgerInit == WfInit

LedgerCreateTransaction ==
    /\ Len(ledger) < MaxLedger
    /\ \E item \in ItemNames, type \in TransactionTypes, q \in LedgerQuantities,
          date \in LedgerDates, fault \in StoreFaults :
       \E price \in LedgerPrices[type] :
          LET r == create_transaction(ledger, item, type, q, price, date, fault)
          IN /\ ledger' = r.ledger
             /\ call' = [fn |-> "create_transaction", item_name |-> item,
                         transaction_type |-> type, quantity |-> q, price |-> price,
                         date |-> date, fault |-> fault, raised |-> r.raised,
                         writes |-> r.writes, id |-> r.id]
    /\ UNCHANGED wfVars

CallCheckItemStock ==
    /\ \E item \in ItemNames, date \in AsOfDates, storeOk \in BOOLEAN :
          call' = [fn |-> "check_item_stock", item_name |-> item, date |-> date,
                   storeOk |-> storeOk,
                   result |-> check_item_stock(ledger, item, date, storeOk)]
    /\ UNCHANGED ledger
    /\ UNCHANGED wfVars

CallCheckAllInventory ==
    /\ \E date \in AsOfDates, storeOk \in BOOLEAN :
          call' = [fn |-> "check_all_inventory", date |-> date, storeOk |-> storeOk,
                   result |-> check_all_inventory(ledger, date, storeOk)]
    /\ UNCHANGED ledger
    /\ UNCHANGED wfVars

CallGetCashBalance ==
    /\ \E date \in AsOfDates, storeOk \in BOOLEAN :
          call' = [fn |-> "get_cash_balance", date |-> date, storeOk |-> storeOk,
                   result |-> [kind |-> "return",
                               value |-> get_cash_balance(ledger, date, storeOk)]]
    /\ UNCHANGED ledger
    /\ UNCHANGED wfVars

CallCheckCashBalance ==
    /\ \E date \in AsOfDates, storeOk \in BOOLEAN :
          call' = [fn |-> "check_cash_balance", date |-> date, storeOk |-> storeOk,
                   result |-> check_cash_balance(ledger, date, storeOk)]
    /\ UNCHANGED ledger
    /\ UNCHANGED wfVars

CallGetFinancialReport ==
    /\ \E date \in AsOfDates, storeOk \in BOOLEAN :
          call' = [fn |-> "get_financial_report", date |-> date, storeOk |-> storeOk,
                   result |-> get_financial_report(ledger, date, storeOk)]
    /\ UNCHANGED ledger
    /\ UNCHANGED wfVars

CallCheckRestockNeeded ==
    /\ \E item \in ItemNames, date \in AsOfDates, storeOk \in BOOLEAN :
          call' = [fn |-> "check_restock_needed", item_name |-> item, date |-> date,
                   storeOk |-> storeOk,
                   result |-> check_restock_needed(ledger, item, date, storeOk)]
    /\ UNCHANGED ledger
    /\ UNCHANGED wfVars

\* mutant: an approval is recorded in the ledger as the stock order it allows
CallApprovePurchaseRecording ==
    /\ \E amount \in LedgerAmounts, date \in AsOfDates, storeOk \in BOOLEAN :
          LET result == approve_purchase(ledger, amount, date, DefaultSafetyMargin,
                                         storeOk)
          IN /\ call' = [fn |-> "approve_purchase", purchase_amount |-> amount,
                         date |-> date, safety_margin |-> DefaultSafetyMargin,
                         storeOk |-> storeOk, result |-> result]
             /\ ledger' = IF result.approved /\ Len(ledger) < MaxLedger
                          THEN Append(ledger, Row("A4 paper", "stock_orders", 1000,
                                                  amount, date))
                          ELSE ledger
    /\ UNCHANGED wfVars

\* approve_purchase called without safety_margin: the default applies
CallApprovePurchase ==
    /\ \E amount \in LedgerAmounts, date \in AsOfDates, storeOk \in BOOLEAN :
          call' = [fn |-> "approve_purchase", purchase_amount |-> amount,
                   date |-> date, safety_margin |-> DefaultSafetyMargin,
                   storeOk |-> storeOk,
                   result |-> approve_purchase(ledger, amount, date,
                                               DefaultSafetyMargin, storeOk)]
    /\ UNCHANGED ledger
    /\ UNCHANGED wfVars

LedgerNext ==
    \/ LedgerCreateTransaction
    \/ CallCheckItemStock
    \/ CallCheckAllInventory
    \/ CallGetCashBalance
    \/ CallCheckCashBalance
    \/ CallGetFinancialReport
    \/ CallCheckRestockNeeded
    \/ CallApprovePurchase

SpecLedger == LedgerInit /\ [][LedgerNext]_vars

-----------------------------------------------------------------------------
(* Direct calls of the restocking tools: sales and stock orders are         *)
(* recorded, check_restock_needed and approve_purchase are asked, and a     *)
(* stock order may take its arguments from what the tool called just        *)
(* before it reported (the ordering agent's "Workflow for restocking")      *)

\* a first delivery of 520 units; sales of 40 and 20 units bring the stock
\* to 480 and to 500; the tools take any int, 0 included
RestockUnits == [sales |-> {0, 20, 40}, stock_orders |-> {520}]

\* a sale brings 500.00, the first delivery costs 26.00
RestockPrices == [sales |-> {50000}, stock_orders |-> {2600}]

\* "2025-01-01", "2025-01-02"
RestockDates == {<<1, 0>>, <<2, 0>>}

\* the day of the free sales and deliveries
RestockRowDates == {<<1, 0>>}

\* 400.00 is what a balance of 500.00 leaves available at a margin of 20
RestockAmounts == {40000, 40001}

RestockMargins == {0, DefaultSafetyMargin, 100}

RestockInit == WfInit

RestockSale ==
    /\ Len(ledger) < MaxLedger
    /\ \E q \in RestockUnits["sales"], price \in RestockPrices["sales"],
          date \in RestockRowDates, fault \in StoreFaults :
          LET r == process_sales_transaction(ledger, "A4 paper", q, price, date, fault)
          IN /\ ledger' = r.ledger
             /\ call' = [fn |-> "process_sales_transaction", item_name |-> "A4 paper",
                         quantity |-> q, price |-> price, date |-> date,
                         fault |-> fault, result |-> r.result]
    /\ UNCHANGED wfVars

RestockStockOrder ==
    /\ Len(ledger) < MaxLedger
    /\ \E q \in RestockUnits["stock_orders"], price \in RestockPrices["stock_orders"],
          date \in RestockRowDates, fault \in StoreFaults :
          LET r == process_stock_order_transaction(ledger, "A4 paper", q, price, date,
                                                   fault)
          IN /\ ledger' = r.ledger
             /\ call' = [fn |-> "process_stock_order_transaction",
                         item_name |-> "A4 paper", quantity |-> q, price |-> price,
                         date |-> date, fault |-> fault, result |-> r.result]
    /\ UNCHANGED wfVars

RestockCheck ==
    /\ \E item \in ItemNames, date \in RestockDates, storeOk \in BOOLEAN :
          call' = [fn |-> "check_restock_needed", item_name |-> item, date |-> date,
                   storeOk |-> storeOk,
                   result |-> check_restock_needed(ledger, item, date, storeOk)]
    /\ UNCHANGED ledger
    /\ UNCHANGED wfVars

\* the stock order that check_restock_needed recommended: its quantity, its
\* estimated cost, the date of the check
RestockReorder ==
    /\ Len(ledger) <= MaxLedger
    /\ call.fn = "check_restock_needed"
    /\ "needs_restock" \in DOMAIN call.result.value
    /\ call.result.value.needs_restock
    /\ \E fault \in StoreFaults :
          LET v == call.result.value
              r == process_stock_order_transaction(
                       ledger, call.item_name, v.recommended_reorder_qty,
                       v.estimated_reorder_cost, call.date, fault)
          IN /\ ledger' = r.ledger
             /\ call' = [fn |-> "process_stock_order_transaction",
                         item_name |-> call.item_name,
                         quantity |-> v.recommended_reorder_qty,
                         price |-> v.estimated_reorder_cost,
                         date |-> call.date, fault |-> fault, result |-> r.result]
    /\ UNCHANGED wfVars

RestockApprove ==
    /\ \E amount \in RestockAmounts, date \in RestockDates, margin \in RestockMargins,
          storeOk \in BOOLEAN :
          call' = [fn |-> "approve_purchase", purchase_amount |-> amount,
                   date |-> date, safety_margin |-> margin, storeOk |-> storeOk,
                   result |-> approve_purchase(ledger, amount, date, margin, storeOk)]
    /\ UNCHANGED ledger
    /\ UNCHANGED wfVars

\* the stock order of a purchase that approve_purchase approved just before:
\* its amount, the date of the approval
RestockPurchase ==
    /\ Len(ledger) <= MaxLedger
    /\ call.fn = "approve_purchase"
    /\ call.result.approved
    /\ \E q \in RestockUnits["stock_orders"], fault \in StoreFaults :
          LET r == process_stock_order_transaction(
                       ledger, "A4 paper", q, call.purchase_amount, call.date, fault)
          IN /\ ledger' = r.ledger
             /\ call' = [fn |-> "process_stock_order_transaction",
                         item_name |-> "A4 paper", quantity |-> q,
                         price |-> call.purchase_amount, date |-> call.date,
                         fault |-> fault, result |-> r.result]
    /\ UNCHANGED wfVars

RestockNext ==
    \/ RestockSale
    \/ RestockStockOrder
    \/ RestockCheck
    \/ RestockReorder
    \/ RestockApprove
    \/ RestockPurchase

SpecRestock == RestockInit /\ [][RestockNext]_vars

-----------------------------------------------------------------------------
(* Direct calls of check_delivery_timeline: its inputs *)

DeliveryQuantities == {-1, 0, 10, 11, 50, 100, 101, 500, 1000, 1001, 5000}

\* "2025-01-01", "2025-01-01T12:00:00", "2025-01-02", "2025-01-30" and a
\* string that is not a date
DeliveryDates == {<<1, 0>>, <<1, 5>>, <<2, 0>>, <<30, 0>>, <<0, 0>>}

\* the day the call is made on (datetime.now())
DeliveryToday == {3, 40}

DeliveryInit == WfInit

DeliveryCall ==
    /\ \E date \in DeliveryDates, q \in DeliveryQuantities, today \in DeliveryToday :
          call' = [fn |-> "check_delivery_timeline", date |-> date, quantity |-> q,
                   today |-> today,
                   result |-> check_delivery_timeline(date, q, today)]
    /\ UNCHANGED ledger
    /\ UNCHANGED wfVars

DeliveryNext == DeliveryCall

SpecDelivery == DeliveryInit /\ [][DeliveryNext]_vars

-----------------------------------------------------------------------------
(* Direct calls of calculate_financial_health on ledgers whose cash and     *)
(* inventory value meet the thresholds: at 0.05 a unit, 1400 units are      *)
(* worth 70.00, 1600 units 80.00 and 1800 units 90.00                       *)

\* the units of a delivery; every sale is of 100 units
HealthUnits == [sales |-> {100}, stock_orders |-> {1500, 1700, 1900}]

\* a sale brings 50.00, 40.00 or 30.00; a delivery costs 20.00 or 200.00
HealthPrices == [sales |-> {5000, 4000, 3000}, stock_orders |-> {2000, 20000}]

HealthDates == {<<1, 0>>}

HealthInit == WfInit

HealthCreateTransaction ==
    /\ Len(ledger) < MaxLedger
    /\ \E type \in TransactionTypes, date \in HealthDates :
       \E q \in HealthUnits[type], price \in HealthPrices[type] :
          LET r == create_transaction(ledger, "A4 paper", type, q, price, date, "none")
          IN /\ ledger' = r.ledger
             /\ call' = [fn |-> "create_transaction", item_name |-> "A4 paper",
                         transaction_type |-> type, quantity |-> q, price |-> price,
                         date |-> date, fault |-> "none", raised |-> r.raised,
                         writes |-> r.writes, id |-> r.id]
    /\ UNCHANGED wfVars

HealthCall ==
    /\ \E date \in HealthDates, storeOk \in BOOLEAN :
          call' = [fn |-> "calculate_financial_health", date |-> date,
                   storeOk |-> storeOk,
                   result |-> calculate_financial_health(ledger, date, storeOk)]
    /\ UNCHANGED ledger
    /\ UNCHANGED wfVars

HealthNext ==
    \/ HealthCreateTransaction
    \/ HealthCall

SpecHealth == HealthInit /\ [][HealthNext]_vars

-----------------------------------------------------------------------------
(* The planning/routing/evaluation workflow of agentic_workflow.py *)

AwInit == WfInit

\* workflow_steps = action_planning_agent.extract_steps_from_prompt(...);
\* completed_steps = []
ExtractSteps ==
    /\ awPc = "start"
    /\ \E plan \in SeqsUpTo(StepTexts, MaxPlan) : workflow_steps' = plan
    /\ completed_steps' = <<>>
    /\ awPc' = "loop"
    /\ UNCHANGED <<stepI, routing_agents, routeCall, routed, returns, ev>>
    /\ UNCHANGED orderVars

\* for i, step in enumerate(workflow_steps): routing_agent.route_prompt(step)
\* is called
LoopStep ==
    /\ awPc = "loop"
    /\ stepI < Len(workflow_steps)
    /\ stepI' = stepI + 1
    /\ routeCall' = [status |-> "running", task |-> workflow_steps[stepI + 1],
                     selection |-> "none", invoked |-> <<>>, result |-> "none"]
    /\ routed' = Append(routed, workflow_steps[stepI + 1])
    /\ awPc' = "route"
    /\ UNCHANGED <<workflow_steps, completed_steps, routing_agents, returns, ev>>
    /\ UNCHANGED orderVars

\* the loop is over: the script prints the last completed step
LoopEnd ==
    /\ awPc = "loop"
    /\ stepI = Len(workflow_steps)
    /\ awPc' = "done"
    /\ UNCHANGED <<workflow_steps, completed_steps, stepI, routing_agents,
                   routeCall, routed, returns, ev>>
    /\ UNCHANGED orderVars

\* the router asks the oracle for a handler and dispatches the task; a
\* selection outside the table is an error, which the loop does not catch
RoutePrompt ==
    /\ awPc = "route"
    /\ \E selection \in RouterSelections :
          LET invoked == route_dispatch(routing_agents, selection, routeCall.task)
          IN /\ routeCall' = [routeCall EXCEPT
                                !.selection = selection,
                                !.invoked = invoked,
                                !.status = IF invoked = <<>> THEN "raised" ELSE @]
             /\ awPc' = IF invoked = <<>> THEN "crashed" ELSE "support"
    /\ UNCHANGED <<workflow_steps, completed_steps, stepI, routing_agents, routed,
                   returns, ev>>
    /\ UNCHANGED orderVars

\* the support function runs: initial_response = knowledge_agent.respond(query)
\* (not used), then evaluation_agent.evaluate(query) starts
SupportFunction ==
    /\ awPc = "support"
    /\ LET invocation == routeCall.invoked[1]
           func == routing_agents[invocation.handler].func
       IN ev' = EvaluatorStart(EvaluationAgentOf(func), invocation.task)
    /\ awPc' = "draft"
    /\ UNCHANGED <<workflow_steps, completed_steps, stepI, routing_agents,
                   routeCall, routed, returns>>
    /\ UNCHANGED orderVars

EvaluatorDraft ==
    /\ awPc = "draft"
    /\ \E draft \in DraftTexts : ev' = EvaluatorDraftStep(ev, draft)
    /\ awPc' = "judge"
    /\ UNCHANGED <<workflow_steps, completed_steps, stepI, routing_agents,
                   routeCall, routed, returns>>
    /\ UNCHANGED orderVars

\* the judge answers; when the session returns, the support function returns
\* its final_response and route_prompt returns that to the loop
EvaluatorJudge ==
    /\ awPc = "judge"
    /\ \E v \in JudgeResponses :
          LET e2 == EvaluatorJudgeStep(ev, v)
          IN /\ ev' = e2
             /\ IF e2.status = "raised"
                THEN /\ awPc' = "crashed"
                     /\ routeCall' = [routeCall EXCEPT !.status = "raised"]
                     /\ UNCHANGED returns
                ELSE IF e2.status = "returned"
                THEN /\ awPc' = "append"
                     /\ routeCall' = [routeCall EXCEPT
                                        !.status = "returned",
                                        !.result = support_function_result(e2)]
                     /\ returns' = Append(returns, support_function_result(e2))
                ELSE /\ awPc' = "draft"
                     /\ UNCHANGED <<routeCall, returns>>
    /\ UNCHANGED <<workflow_steps, completed_steps, stepI, routing_agents, routed>>
    /\ UNCHANGED orderVars

\* mutant: completed_steps.insert(0, result)
AppendResultInFront ==
    /\ awPc = "append"
    /\ completed_steps' = <<routeCall.result>> \o completed_steps
    /\ awPc' = "loop"
    /\ UNCHANGED <<workflow_steps, stepI, routing_agents, routeCall, routed,
                   returns, ev>>
    /\ UNCHANGED orderVars

\* completed_steps.append(result)
AppendResult ==
    /\ awPc = "append"
    /\ completed_steps' = Append(completed_steps, routeCall.result)
    /\ awPc' = "loop"
    /\ UNCHANGED <<workflow_steps, stepI, routing_agents, routeCall, routed,
                   returns, ev>>
    /\ UNCHANGED orderVars

AwNext ==
    \/ ExtractSteps
    \/ LoopStep
    \/ LoopEnd
    \/ RoutePrompt
    \/ SupportFunction
    \/ EvaluatorDraft
    \/ EvaluatorJudge
    \/ AppendResult

SpecWorkflow == AwInit /\ [][AwNext]_vars

-----------------------------------------------------------------------------
(* Properties *)

\* s is a prefix of t
IsPrefix(s, t) == Len(s) <= Len(t) /\ SubSeq(t, 1, Len(s)) = s

\* the rows this request has appended so far
RequestRows == SubSeq(ledger, reqStart + 1, Len(ledger))

\* the number of rows of a type among the rows of a sequence
CountType(rows, type) ==
    Cardinality({i \in 1..Len(rows) : rows[i].transaction_type = type})

\* the sum of the quantities of the lines of a quote request (a line
\* without a quantity counts 0 units)
UnitsOf(items) ==
    SumSeq([i \in 1..Len(items) |->
              IF "quantity" \in DOMAIN items[i] THEN items[i].quantity ELSE 0])

(* C1: every quote carries the discount tier of its total units: 0 up to   *)
(* 500 units, 10 from 501 to 1000, 15 above 1000; so 500 -> 0, 501 -> 10,  *)
(* 1000 -> 10, 1001 -> 15.                                                 *)
DiscountTierOfTotalUnits ==
    call.fn = "calculate_quote_price" =>
        LET u == UnitsOf(call.items)
            d == call.result.discount_percent
        IN /\ call.result.total_units = u
           /\ (u <= 500 => d = 0)
           /\ (501 <= u /\ u <= 1000 => d = 10)
           /\ (u > 1000 => d = 15)

\* a quote of exactly 501 units (500 + 1) got 10 percent
DiscountTierWitness ==
    /\ call.fn = "calculate_quote_price"
    /\ Len(call.items) = 2
    /\ UnitsOf(call.items) = 501
    /\ call.result.discount_percent = 10

(* C2: approve_purchase approves exactly when purchase_amount <=           *)
(* current_balance * (1 - safety_margin), current_balance being what       *)
(* get_cash_balance(date) gave (the ledger's balance as of the date when   *)
(* the store is read); a purchase equal to the available amount is         *)
(* approved; with balance 300.00 and margin 20% a purchase of 260.00 is    *)
(* rejected and available_for_purchase is 240.00.                          *)
ApprovalIffWithinMargin ==
    call.fn = "approve_purchase" =>
        LET r == call.result
            bal == r.current_balance
            amt == call.purchase_amount
            m == call.safety_margin
        IN /\ bal = get_cash_balance(ledger, call.date, call.storeOk)
           /\ r.approved <=> (amt * 100 <= bal * (100 - m))
           /\ (amt * 100 = bal * (100 - m) => r.approved)
           /\ (bal = 30000 /\ m = DefaultSafetyMargin /\ amt = 26000
                 => ~r.approved /\ r.available_for_purchase = 24000)

\* balance 300.00 read from the ledger, default margin, 260.00 rejected
ApprovalWitness ==
    /\ call.fn = "approve_purchase"
    /\ call.storeOk
    /\ call.result.current_balance = 30000
    /\ call.safety_margin = DefaultSafetyMargin
    /\ call.purchase_amount = 26000
    /\ ~call.result.approved
    /\ call.result.available_for_purchase = 24000

(* C3: a 'sales' row is appended only if the item's stock as of the sale   *)
(* date was at least the quantity sold, so no item's stock goes negative.  *)
SaleOnlyWithSufficientStock ==
    [][\A i \in (Len(ledger) + 1)..Len(ledger') :
          ledger'[i].transaction_type = "sales" =>
              get_stock_level(ledger, ledger'[i].item_name,
                              ledger'[i].transaction_date) >= ledger'[i].units]_vars

(* C4: a 'stock_orders' row is appended only after approve_purchase has    *)
(* approved that amount earlier in the same request.                       *)
StockOrderOnlyAfterApproval ==
    [][\A i \in (Len(ledger) + 1)..Len(ledger') :
          ledger'[i].transaction_type = "stock_orders" =>
              ledger'[i].price \in approved]_vars

(* C5: a request appends at most one 'sales' row, and the price of the row *)
(* is the total of a quote computed earlier in the same request.           *)
SalePriceIsQuotedTotal ==
    [][\A i \in (Len(ledger) + 1)..Len(ledger') :
          ledger'[i].transaction_type = "sales" =>
              /\ ledger'[i].price \in quoted
              /\ CountType(RequestRows, "sales") = 0]_vars

(* C6: one process_customer_request call appends at most one               *)
(* 'stock_orders' row.                                                     *)
AtMostOneStockOrderPerRequest == CountType(RequestRows, "stock_orders") <= 1

(* C7: whatever way the orchestrator run ends (any value returned, any     *)
(* Exception raised), process_customer_request returns a string, and after *)
(* an exception the string is the apology message.                         *)
AlwaysReturnsString ==
    outcome # NoOutcome =>
        /\ outcome.result.kind = "return"
        /\ outcome.result.value.tag = "str"
        /\ (outcome.run.kind = "raise" =>
               outcome.result.value.text[1] = ApologyPrefix)

\* a run that raised was answered with the apology string
ApologyWitness ==
    /\ outcome # NoOutcome
    /\ outcome.run.kind = "raise"
    /\ outcome.result.kind = "return"
    /\ outcome.result.value.text[1] = ApologyPrefix

(* C8: the text returned for a failed run does not depend on the failure:  *)
(* all failed requests get the same text.                                  *)
ApologyIsGeneric == Cardinality(failTexts) <= 1

(* C9: the ledger is append-only: every step leaves the rows already there *)
(* in place and unchanged (the old ledger is a prefix of the new one).     *)
LedgerAppendOnly == [][IsPrefix(ledger, ledger')]_vars

\* a stock order was appended after a sale: the sale row is still the first
AppendOnlyWitness ==
    /\ Len(ledger) = 2
    /\ ledger[1].transaction_type = "sales"
    /\ ledger[2].transaction_type = "stock_orders"

(* C10: create_transaction with a type other than 'sales' and              *)
(* 'stock_orders' raises before any write is attempted and leaves the      *)
(* ledger as it was.                                                       *)
InvalidTypeRejectedBeforeWrite ==
    [][(call'.fn = "create_transaction"
          /\ call'.transaction_type \notin {"sales", "stock_orders"})
       => (call'.raised /\ call'.writes = 0 /\ ledger' = ledger)]_vars

\* a 'refund' was refused while the ledger held a row
InvalidTypeWitness ==
    /\ call.fn = "create_transaction"
    /\ call.transaction_type = "refund"
    /\ call.raised
    /\ Len(ledger) = 1

\* the claim's "dated <= as_of": a bare as_of date stands for the end of
\* its day, an as_of with a time part for that moment
OnOrBefore(d, as_of) ==
    \/ d[1] < as_of[1]
    \/ d[1] = as_of[1] /\ (as_of[2] = 0 \/ d[2] <= as_of[2])

\* the sum of the units of the rows of a type of an item dated <= as_of
UnitsUpTo(L, item, type, as_of) ==
    SumSeq([i \in 1..Len(L) |->
              IF L[i].item_name = item /\ L[i].transaction_type = type
                 /\ OnOrBefore(L[i].transaction_date, as_of)
              THEN L[i].units ELSE 0])

\* the sum of the prices of the rows of a type dated <= as_of
PriceUpTo(L, type, as_of) ==
    SumSeq([i \in 1..Len(L) |->
              IF L[i].transaction_type = type
                 /\ OnOrBefore(L[i].transaction_date, as_of)
              THEN L[i].price ELSE 0])

(* C11: temporal isolation: appending a transaction dated after as_of      *)
(* changes neither the stock of any item as of as_of nor the cash balance  *)
(* as of as_of.                                                            *)
TemporalIsolation ==
    [][\A i \in (Len(ledger) + 1)..Len(ledger') :
          \A d \in AsOfDates :
             ~OnOrBefore(ledger'[i].transaction_date, d) =>
                /\ \A item \in ItemNames :
                      get_stock_level(ledger', item, d) = get_stock_level(ledger, item, d)
                /\ get_cash_balance(ledger', d, TRUE) = get_cash_balance(ledger, d, TRUE)]_vars

\* a stock order dated 2025-01-02 was appended after one dated 2025-01-01:
\* the stock as of 2025-01-01 is still that of the first row
TemporalIsolationWitness ==
    /\ Len(ledger) = 2
    /\ ledger[1].transaction_date = <<1, 0>>
    /\ ledger[2].transaction_date = <<2, 0>>
    /\ ledger[1].transaction_type = "stock_orders"
    /\ ledger[2].transaction_type = "stock_orders"
    /\ ledger[1].item_name = ledger[2].item_name
    /\ get_stock_level(ledger, ledger[1].item_name, <<1, 0>>) = ledger[1].units
    /\ get_stock_level(ledger, ledger[1].item_name, <<2, 0>>)
          = ledger[1].units + ledger[2].units

(* C12: the stock level reported for an item as of a date is the units of  *)
(* its 'stock_orders' rows dated <= as_of minus the units of its 'sales'   *)
(* rows dated <= as_of, 0 for an item without rows; one stock order of     *)
(* 1000 units on 2025-01-01 gives 1000 as of 2025-01-02.                   *)
StockLevelIsOrdersMinusSales ==
    (call.fn = "check_item_stock" /\ call.storeOk) =>
        LET stock == call.result.value.current_stock
        IN /\ call.result.kind = "return"
           /\ stock = UnitsUpTo(ledger, call.item_name, "stock_orders", call.date)
                        - UnitsUpTo(ledger, call.item_name, "sales", call.date)
           /\ (call.item_name \notin NamesIn(ledger) => stock = 0)
           /\ (/\ Len(ledger) = 1
               /\ ledger[1] = Row(call.item_name, "stock_orders", 1000,
                                   ledger[1].price, <<1, 0>>)
               /\ call.date = <<2, 0>>
               => stock = 1000)

\* the scenario: one stock order of 1000 units on 2025-01-01, asked as of
\* 2025-01-02
StockLevelWitness ==
    /\ call.fn = "check_item_stock"
    /\ call.storeOk
    /\ Len(ledger) = 1
    /\ ledger[1].item_name = call.item_name
    /\ ledger[1].transaction_type = "stock_orders"
    /\ ledger[1].units = 1000
    /\ ledger[1].transaction_date = <<1, 0>>
    /\ call.date = <<2, 0>>
    /\ call.result.value.current_stock = 1000

(* C13: the cash balance as of a date is the prices of the 'sales' rows    *)
(* dated <= as_of minus the prices of the 'stock_orders' rows dated        *)
(* <= as_of (when the store is read); one sale of 500.00 and one stock     *)
(* order of 200.00 give 300.00.                                            *)
CashBalanceIsSalesMinusOrders ==
    (call.fn = "get_cash_balance" /\ call.storeOk) =>
        /\ call.result.value = PriceUpTo(ledger, "sales", call.date)
                                 - PriceUpTo(ledger, "stock_orders", call.date)
        /\ (/\ Len(ledger) = 2
            /\ CountType(ledger, "sales") = 1
            /\ PriceUpTo(ledger, "sales", call.date) = 50000
            /\ PriceUpTo(ledger, "stock_orders", call.date) = 20000
            => call.result.value = 30000)

\* the scenario: a sale of 500.00 and a stock order of 200.00, balance 300.00
CashBalanceWitness ==
    /\ call.fn = "get_cash_balance"
    /\ call.storeOk
    /\ Len(ledger) = 2
    /\ \E i, j \in 1..2 :
          /\ ledger[i].transaction_type = "sales" /\ ledger[i].price = 50000
          /\ ledger[j].transaction_type = "stock_orders" /\ ledger[j].price = 20000
    /\ call.date = <<2, 0>>
    /\ call.result.value = 30000

\* the stock of an item as of a date, by the claim's reading of the date
StockUpTo(L, item, as_of) ==
    UnitsUpTo(L, item, "stock_orders", as_of) - UnitsUpTo(L, item, "sales", as_of)

\* a call given a bare YYYY-MM-DD date, the store being read
BareDateCall(fn) == call.fn = fn /\ call.storeOk /\ call.date[2] = 0

(* C14: every as-of filter given a bare date takes it as the end of that   *)
(* day: the stock level, the inventory snapshot, the cash balance and the  *)
(* top-selling products of the financial report all include every          *)
(* transaction dated on that day, with or without a time part.             *)
SameDayIncludedInEveryFilter ==
    /\ BareDateCall("check_item_stock") =>
          call.result.value.current_stock = StockUpTo(ledger, call.item_name, call.date)
    /\ BareDateCall("check_all_inventory") =>
          \A x \in ItemNames :
             IF StockUpTo(ledger, x, call.date) > 0
             THEN /\ x \in DOMAIN call.result.value
                  /\ call.result.value[x] = StockUpTo(ledger, x, call.date)
             ELSE x \notin DOMAIN call.result.value
    /\ BareDateCall("get_cash_balance") =>
          call.result.value = PriceUpTo(ledger, "sales", call.date)
                                - PriceUpTo(ledger, "stock_orders", call.date)
    /\ BareDateCall("get_financial_report") =>
          \A i \in 1..Len(ledger) :
             (ledger[i].transaction_type = "sales"
                /\ OnOrBefore(ledger[i].transaction_date, call.date)) =>
             \E g \in call.result.value.top_selling_products :
                /\ g.item_name = ledger[i].item_name
                /\ g.total_units =
                      UnitsUpTo(ledger, ledger[i].item_name, "sales", call.date)

(* C20: a tool called while the store fails returns a structured result    *)
(* with an error indication: it neither raises nor returns a               *)
(* normal-looking value.                                                   *)
StoreFailureIsStructuredError ==
    (/\ call.fn \in {"check_item_stock", "check_all_inventory", "check_cash_balance",
                     "get_financial_report", "check_restock_needed"}
     /\ ~call.storeOk) =>
        /\ call.result.kind = "return"
        /\ "error" \in DOMAIN call.result.value

(* C19: every row of the ledger names an item of the inventory catalog: a  *)
(* request for an item that is not in the catalog appends nothing.          *)
LedgerItemsInCatalog ==
    \A i \in 1..Len(ledger) : ledger[i].item_name \in Catalog

\* the verdicts of a session among which none accepts
NoneAccepted(verdicts) ==
    \A i \in 1..Len(verdicts) :
       verdicts[i].tag = "verdict" /\ ~verdicts[i].accepted

(* C15: an Evaluator session takes at most max_iterations rounds (3 as     *)
(* configured) and never raises on a sequence of verdicts: after the third *)
(* rejection it returns accepted = false with the draft of the last round  *)
(* as final_response.                                                      *)
EvaluatorTerminatesWithinCap ==
    ev.status # "idle" =>
        /\ ev.rounds <= 3
        /\ Len(ev.drafts) = ev.rounds
        /\ Len(ev.verdicts) <= ev.rounds
        /\ (Len(ev.verdicts) = 3 => ev.status # "running")
        /\ (ev.status = "raised" =>
               ev.verdicts[Len(ev.verdicts)].tag = "malformed")
        /\ (ev.status = "returned" /\ NoneAccepted(ev.verdicts) =>
               /\ ev.accepted = FALSE
               /\ ev.rounds = 3
               /\ ev.final_response = ev.drafts[ev.rounds])

\* three rejected rounds whose last draft differs from the first: the
\* session returned the last one, not accepted
EvaluatorExhaustedWitness ==
    /\ ev.status = "returned"
    /\ ~ev.accepted
    /\ ev.rounds = 3
    /\ NoneAccepted(ev.verdicts)
    /\ ev.drafts[1] # ev.drafts[3]
    /\ ev.final_response = ev.drafts[3]

(* C16: the first accepted round ends the session at once: the accepting   *)
(* verdict is the last one, the session has returned accepted = true with  *)
(* that round's draft, and no draft or verdict follows it.                 *)
AcceptEndsSession ==
    ev.status # "idle" =>
        \A i \in 1..Len(ev.verdicts) :
           (ev.verdicts[i].tag = "verdict" /\ ev.verdicts[i].accepted) =>
              /\ i = Len(ev.verdicts)
              /\ Len(ev.drafts) = i
              /\ ev.rounds = i
              /\ ev.status = "returned"
              /\ ev.accepted = TRUE
              /\ ev.final_response = ev.drafts[i]

\* a session accepted in its second round, after a different first draft,
\* and the loop has gone on since
AcceptWitness ==
    /\ ev.status = "returned"
    /\ ev.accepted
    /\ ev.rounds = 2
    /\ ev.drafts[1] # ev.drafts[2]
    /\ ev.final_response = ev.drafts[2]
    /\ awPc = "done"

PlanRoutedInOrder ==
    /\ IsPrefix(routed, workflow_steps)
    /\ Len(routed) = stepI
    /\ IsPrefix(completed_steps, returns)
    /\ Len(returns) <= Len(routed)
    /\ Len(routed) <= Len(completed_steps) + 1
    /\ (awPc = "route" => Len(completed_steps) = Len(routed) - 1)
    /\ (awPc = "done" =>
           /\ routed = workflow_steps
           /\ completed_steps = returns
           /\ Len(completed_steps) = Len(workflow_steps))
    /\ (awPc # "start" /\ workflow_steps = <<>> =>
           /\ awPc \in {"loop", "done"}
           /\ routed = <<>>
           /\ completed_steps = <<>>)

\* a plan of two different steps was completed with two different results
PlanRoutedWitness ==
    /\ awPc = "done"
    /\ Len(workflow_steps) = 2
    /\ workflow_steps[1] # workflow_steps[2]
    /\ Len(completed_steps) = 2
    /\ completed_steps[1] # completed_steps[2]

\* a restock check of a catalogued item that read the store
RestockChecked ==
    /\ call.fn = "check_restock_needed"
    /\ call.storeOk
    /\ call.item_name \in Catalog

(* C21: for a catalogued item, check_restock_needed reports needs_restock  *)
(* exactly when the stock as of the date is below min_stock_level (not at  *)
(* equality); then recommended_reorder_qty = 2 * min_stock_level - stock   *)
(* and the cost is that quantity times unit_price; otherwise both are 0;   *)
(* a stock of 480 against a minimum of 500 gives true and 520.             *)
RestockIffBelowMinimum ==
    RestockChecked =>
        LET v == call.result.value
            stock == StockUpTo(ledger, call.item_name, call.date)
            min_stock_level == Inventory[call.item_name].min_stock_level
            unit_price == Inventory[call.item_name].unit_price
        IN /\ call.result.kind = "return"
           /\ v.current_stock = stock
           /\ v.needs_restock <=> stock < min_stock_level
           /\ v.needs_restock =>
                 /\ v.recommended_reorder_qty = 2 * min_stock_level - stock
                 /\ v.estimated_reorder_cost = v.recommended_reorder_qty * unit_price
           /\ ~v.needs_restock =>
                 /\ v.recommended_reorder_qty = 0
                 /\ v.estimated_reorder_cost = 0
           /\ (stock = 480 /\ min_stock_level = 500) =>
                 (v.needs_restock /\ v.recommended_reorder_qty = 520)

\* the scenario: a delivery of 520 units and a sale of 40 leave 480 against
\* the minimum of 500; the check recommends 520 units
RestockWitness ==
    /\ RestockChecked
    /\ Len(ledger) = 2
    /\ StockUpTo(ledger, call.item_name, call.date) = 480
    /\ call.result.value.needs_restock
    /\ call.result.value.recommended_reorder_qty = 520

\* the lead time the claim gives a quantity
LeadTimeOf(quantity) ==
    IF quantity <= 10 THEN 0
    ELSE IF quantity <= 100 THEN 1
    ELSE IF quantity <= 1000 THEN 4
    ELSE 7

(* C22: lead_time_days is 0 up to 10 units, 1 up to 100, 4 up to 1000 and  *)
(* 7 above (10, 11, 100, 101, 1000, 1001 give 0, 1, 1, 4, 4, 7), it never  *)
(* decreases when the quantity grows, and for a valid order date the       *)
(* delivery_date of check_delivery_timeline is the order date plus the     *)
(* lead_time_days it reports.                                              *)
DeliveryDateIsOrderDatePlusLeadTime ==
    call.fn = "check_delivery_timeline" =>
        LET v == call.result.value
        IN /\ call.result.kind = "return"
           /\ v.lead_time_days = LeadTimeOf(call.quantity)
           /\ call.quantity = 10 => v.lead_time_days = 0
           /\ call.quantity = 11 => v.lead_time_days = 1
           /\ call.quantity = 100 => v.lead_time_days = 1
           /\ call.quantity = 101 => v.lead_time_days = 4
           /\ call.quantity = 1000 => v.lead_time_days = 4
           /\ call.quantity = 1001 => v.lead_time_days = 7
           /\ \A q \in DeliveryQuantities :
                 q <= call.quantity =>
                    check_delivery_timeline(call.date, q, call.today).value.lead_time_days
                       <= v.lead_time_days
           /\ IsIsoDate(call.date) =>
                 v.delivery_date = <<call.date[1] + v.lead_time_days, 0>>

\* 101 units ordered on 2025-01-30 are delivered four days later
DeliveryWitness ==
    /\ call.fn = "check_delivery_timeline"
    /\ call.date = <<30, 0>>
    /\ call.quantity = 101
    /\ call.result.value.lead_time_days = 4
    /\ call.result.value.delivery_date = <<34, 0>>

(* C23: the discount of a quote is chosen once from the total units and    *)
(* applied to the summed subtotal: subtotal is the sum of quantity times   *)
(* unit_price over the lines, discount_amount is subtotal times            *)
(* discount_percent / 100 (to the cent) and total = subtotal -             *)
(* discount_amount; 600 units at 0.05 give 30.00, 10 percent, 3.00 and     *)
(* 27.00; an empty list gives the all-zero quote.                          *)
QuoteTotalIsSubtotalMinusDiscount ==
    call.fn = "calculate_quote_price" =>
        LET q == call.result
            items == call.items
            subtotal == SumSeq([i \in 1..Len(items) |-> ItemTotal(items[i])])
            exact100 == subtotal * q.discount_percent
        IN /\ q.subtotal = subtotal
           /\ q.discount_percent = DiscountPercent(UnitsOf(items))
           /\ q.discount_amount * 100 - exact100 <= 50
           /\ exact100 - q.discount_amount * 100 <= 50
           /\ q.total = q.subtotal - q.discount_amount
           /\ items = <<>> =>
                 (q.subtotal = 0 /\ q.discount_percent = 0
                    /\ q.discount_amount = 0 /\ q.total = 0)
           /\ items = <<[item_name |-> "A4 paper", quantity |-> 600, unit_price |-> 5]>> =>
                 (q.subtotal = 3000 /\ q.discount_percent = 10
                    /\ q.discount_amount = 300 /\ q.total = 2700)

(* C24: every row of the ledger, after any sequence of tool calls, has a   *)
(* type of 'sales' or 'stock_orders', a quantity greater than zero and a   *)
(* price of at least zero.                                                 *)
LedgerRowsWellFormed ==
    \A i \in 1..Len(ledger) :
       /\ ledger[i].transaction_type \in {"sales", "stock_orders"}
       /\ ledger[i].units > 0
       /\ ledger[i].price >= 0

\* the cash balance and the total assets (cash plus the stock of the
\* catalogued items at their unit price) as of a date
CashUpTo(L, as_of) == PriceUpTo(L, "sales", as_of) - PriceUpTo(L, "stock_orders", as_of)

AssetsUpTo(L, as_of) ==
    CashUpTo(L, as_of)
      + SumValues([x \in Catalog |-> StockUpTo(L, x, as_of) * Inventory[x].unit_price],
                  Catalog)

\* cash / total_assets >= tenths / 10, for total_assets other than 0
RatioAtLeast(cash, total_assets, tenths) ==
    IF total_assets > 0
    THEN cash * 10 >= tenths * total_assets
    ELSE cash * 10 <= tenths * total_assets

\* the class the thresholds give the ratio cash / total_assets
ClassOfRatio(cash, total_assets) ==
    IF RatioAtLeast(cash, total_assets, 3) THEN "EXCELLENT"
    ELSE IF RatioAtLeast(cash, total_assets, 2) THEN "GOOD"
    ELSE IF RatioAtLeast(cash, total_assets, 1) THEN "FAIR"
    ELSE "POOR"

\* a health report that read the store
HealthReported == call.fn = "calculate_financial_health" /\ call.storeOk

(* C25 as stated: for every cash balance and total assets,                 *)
(* calculate_financial_health classifies by the ratio cash / total_assets: *)
(* EXCELLENT from 0.30, GOOD from 0.20, FAIR from 0.10, POOR below.        *)
HealthClassifiedByRatio ==
    HealthReported =>
        LET cash == CashUpTo(ledger, call.date)
            total_assets == AssetsUpTo(ledger, call.date)
        IN total_assets # 0 =>
              call.result.value.health_status = ClassOfRatio(cash, total_assets)

(* C25, amended: when total_assets > 0 the class is that of the ratio      *)
(* cash / total_assets (EXCELLENT from 0.30, GOOD from 0.20, FAIR from     *)
(* 0.10, POOR below, a ratio equal to a threshold falling in the higher    *)
(* class); when total_assets <= 0 the class is POOR.                       *)
HealthClassifiedByRatioOfPositiveAssets ==
    HealthReported =>
        LET cash == CashUpTo(ledger, call.date)
            total_assets == AssetsUpTo(ledger, call.date)
            status == call.result.value.health_status
        IN /\ call.result.kind = "return"
           /\ total_assets > 0 => status = ClassOfRatio(cash, total_assets)
           /\ (total_assets > 0 /\ cash * 10 = 3 * total_assets) => status = "EXCELLENT"
           /\ (total_assets > 0 /\ cash * 10 = 2 * total_assets) => status = "GOOD"
           /\ (total_assets > 0 /\ cash * 10 = 1 * total_assets) => status = "FAIR"
           /\ total_assets <= 0 => status = "POOR"

\* cash 20.00 of total assets 100.00: the ratio is exactly 0.20, the class GOOD
HealthWitness ==
    /\ HealthReported
    /\ CashUpTo(ledger, call.date) = 2000
    /\ AssetsUpTo(ledger, call.date) = 10000
    /\ call.result.value.health_status = "GOOD"

\* the tools that only query
QueryTools ==
    {"check_item_stock", "check_all_inventory", "check_cash_balance",
     "approve_purchase", "get_financial_report", "check_restock_needed"}

\* the result the query recorded in call has when it is evaluated again, with
\* the same arguments, on the ledger as it is now
AskedAgain ==
    IF call.fn = "check_item_stock"
    THEN check_item_stock(ledger, call.item_name, call.date, call.storeOk)
    ELSE IF call.fn = "check_all_inventory"
    THEN check_all_inventory(ledger, call.date, call.storeOk)
    ELSE IF call.fn = "check_cash_balance"
    THEN check_cash_balance(ledger, call.date, call.storeOk)
    ELSE IF call.fn = "approve_purchase"
    THEN approve_purchase(ledger, call.purchase_amount, call.date,
                          call.safety_margin, call.storeOk)
    ELSE IF call.fn = "get_financial_report"
    THEN get_financial_report(ledger, call.date, call.storeOk)
    ELSE check_restock_needed(ledger, call.item_name, call.date, call.storeOk)

StepsLeft ==
    IF pc = "idle" THEN 0
    ELSE (OrchestratorMaxSteps - orchSteps) * (OrderingMaxSteps + 2) + 1
         + (IF pc = "spec" THEN MaxSteps(who) - specSteps + 1 ELSE 0)

(* C27: every customer request terminates: the orchestrator takes at most  *)
(* 15 steps and the specialist of each delegation at most its own cap (5   *)
(* for inventory, quoting and financial, 8 for ordering), every step of a  *)
(* request uses up one of the steps left to it, so the tool calls and      *)
(* ledger appends of one process_customer_request call are bounded; and    *)
(* the call eventually returns.                                            *)
RequestTerminates ==
    /\ [](/\ orchSteps <= OrchestratorMaxSteps
          /\ pc = "spec" => specSteps <= MaxSteps(who)
          /\ StepsLeft >= 0)
    /\ [][pc # "idle" => StepsLeft' < StepsLeft]_vars
    /\ [][Len(ledger') <= Len(ledger) + 1]_vars
    /\ (pc # "idle") ~> (pc = "idle")

\* the last delegation the orchestrator may make, to the ordering agent, which
\* has used its 8 steps: nothing is left but to finish
RequestTerminatesWitness ==
    /\ pc = "spec"
    /\ who = "ordering"
    /\ orchSteps = OrchestratorMaxSteps
    /\ specSteps = OrderingMaxSteps
    /\ StepsLeft = 2

\* the type of row a transaction tool writes
RowTypeOf(fn) == IF fn = "process_sales_transaction" THEN "sales" ELSE "stock_orders"

(* C28: the result of process_sales_transaction and of                      *)
(* process_stock_order_transaction matches the ledger: success is true     *)
(* exactly when one row with the given item, type, quantity, price and     *)
(* date was appended, and when success is false (a failure reading back    *)
(* the new row id after the write included) the ledger is unchanged.       *)
TransactionResultMatchesLedger ==
    [][call'.fn \in {"process_sales_transaction", "process_stock_order_transaction"} =>
          LET c == call'
              row == Row(c.item_name, RowTypeOf(c.fn), c.quantity, c.price, c.date)
          IN /\ c.result.success <=> ledger' = Append(ledger, row)
             /\ ~c.result.success => ledger' = ledger]_vars

\* this step appends the stock order of the purchase that the call before it
\* approved: its price is the approved amount, its date that of the approval
ApprovedPurchaseStep ==
    /\ call.fn = "approve_purchase"
    /\ call.result.approved
    /\ call.safety_margin >= 0
    /\ call.safety_margin <= 100
    /\ call'.fn = "process_stock_order_transaction"
    /\ Len(ledger') = Len(ledger) + 1
    /\ SubSeq(ledger', 1, Len(ledger)) = ledger
    /\ ledger'[Len(ledger')].transaction_type = "stock_orders"
    /\ ledger'[Len(ledger')].price = call.purchase_amount
    /\ ledger'[Len(ledger')].transaction_date = call.date

(* C29: when a stock order (dated D, its price the approved amount) is     *)
(* appended directly after approve_purchase approved that amount as of D   *)
(* with a safety margin between 0 and 1, the cash balance as of D after    *)
(* the purchase is at least the margin times the balance before it; so a   *)
(* balance that is not negative does not become negative through an        *)
(* approved restock.                                                       *)
ApprovedPurchaseKeepsMargin ==
    [][ApprovedPurchaseStep =>
          LET before == CashUpTo(ledger, call.date)
              after == CashUpTo(ledger', call.date)
          IN /\ after * 100 >= call.safety_margin * before
             /\ before >= 0 => after >= 0]_vars

\* a sale of 500.00, then a purchase of 400.00 approved at a margin of 20
\* percent: 100.00 are left, exactly the margin
ApprovedPurchaseWitness ==
    /\ call.fn = "process_stock_order_transaction"
    /\ Len(ledger) = 2
    /\ ledger[1].transaction_type = "sales"
    /\ ledger[1].price = 50000
    /\ ledger[2].transaction_type = "stock_orders"
    /\ ledger[2].price = 40000
    /\ CashUpTo(ledger, ledger[2].transaction_date) = 10000

\* this step appends the stock order that the restock check before it
\* recommended: the item, the recommended quantity, the date of the check
RecommendedReorderStep ==
    /\ call.fn = "check_restock_needed"
    /\ "needs_restock" \in DOMAIN call.result.value
    /\ call.result.value.needs_restock
    /\ call'.fn = "process_stock_order_transaction"
    /\ Len(ledger') = Len(ledger) + 1
    /\ SubSeq(ledger', 1, Len(ledger)) = ledger
    /\ ledger'[Len(ledger')].transaction_type = "stock_orders"
    /\ ledger'[Len(ledger')].item_name = call.item_name
    /\ ledger'[Len(ledger')].units = call.result.value.recommended_reorder_qty
    /\ ledger'[Len(ledger')].transaction_date = call.date

(* C30: one restock is enough: when check_restock_needed(item, date)       *)
(* reports needs_restock and a stock order of recommended_reorder_qty      *)
(* units of the item dated date is appended, the stock of the item as of   *)
(* date is exactly 2 * min_stock_level and a second check reports          *)
(* needs_restock = false with quantity 0.                                  *)
OneRestockIsEnough ==
    [][RecommendedReorderStep =>
          LET again == check_restock_needed(ledger', call.item_name, call.date, TRUE)
          IN /\ get_stock_level(ledger', call.item_name, call.date)
                   = 2 * Inventory[call.item_name].min_stock_level
             /\ StockUpTo(ledger', call.item_name, call.date)
                   = 2 * Inventory[call.item_name].min_stock_level
             /\ again.value.needs_restock = FALSE
             /\ again.value.recommended_reorder_qty = 0]_vars

\* a delivery of 520 units, a sale of 40 and, the day after, the reorder of
\* the 520 units the check recommended (at their estimated cost of 26.00):
\* the stock is 1000
OneRestockWitness ==
    /\ call.fn = "process_stock_order_transaction"
    /\ Len(ledger) = 3
    /\ ledger[1].units = 520
    /\ ledger[2].transaction_type = "sales"
    /\ ledger[2].units = 40
    /\ ledger[3].transaction_type = "stock_orders"
    /\ ledger[3].units = 520
    /\ ledger[3].price = 2600
    /\ ledger[3].transaction_date = <<2, 0>>
    /\ get_stock_level(ledger, "A4 paper", <<2, 0>>) = 1000

====
